---- MODULE Spec2Model ----
(***************************************************************************)
(* Model of the task monitor of the Meshy desktop client:                  *)
(* app/core/task_runner.py (TaskRunner), driven by the snapshots and       *)
(* faults of app/core/meshy_client.py (MeshyClient).                       *)
(*                                                                         *)
(* One TaskRunner object is modelled.  The monitor thread executes run();  *)
(* stop() is called from another thread and may interleave with every step *)
(* of the monitor thread.  Each emission of a Qt signal and each start of  *)
(* a client call is a step of its own.                                     *)
(*                                                                         *)
(* The application around the monitor is modelled too: the handlers of     *)
(* app/ui/generator_view.py that persist the monitor's signals, the        *)
(* on-demand refresh of app/ui/history_view.py, and the tasks table of     *)
(* app/core/storage.py.  All of them run on the Qt main thread, one        *)
(* handler at a time; signals of the monitor thread are queued and         *)
(* delivered in emission order.  A second submission in the same           *)
(* GeneratorView, and the opening of a stored model from HistoryView with  *)
(* its URL expiry check, are modelled as specifications of their own.      *)
(***************************************************************************)
EXTENDS Integers, Sequences, FiniteSets, TLC

VARIABLES
    running,    \* TaskRunner._running
    pc,         \* position of the monitor thread inside run()
    loop,       \* which loop called _handle_payload: "stream" or "poll"
    stream,     \* state of the generator returned by stream_image_to_3d_task
    payload,    \* the local variable payload of the running loop
    exc,        \* exception bound by "except Exception as exc" (its str())
    pollExc,    \* exception bound by "except Exception as poll_exc"
    emitted,    \* signals emitted so far, in emission order
    calls,      \* operations started by the monitor so far, in order
    handled,    \* payloads passed to _handle_payload so far, in order
    curTaskId,  \* GeneratorView._current_task_id
    curCreated, \* GeneratorView._current_created_at
    lastProgress, \* GeneratorView._last_progress
    lastDownload, \* GeneratorView._last_download
    lastOptions, \* GeneratorView._last_options
    vpc,        \* position of the main thread inside _handle_task_complete
    dlUrls,     \* the argument model_urls of the running _download_glb
    delivered,  \* number of signals of emitted whose slots have run
    store,      \* the rows of the tasks table, in insertion order
    listed,     \* the records held by the items of HistoryView._list
    nRefresh,   \* number of _refresh_task_status calls so far
    lastRefresh, \* record and payload of the last _refresh_task_status that wrote
    sse,        \* the generator stream_image_to_3d_task run line by line: its input,
                \* its locals, what it yielded and what it raised
    upserts,    \* the records passed to TaskStorage.upsert in a run of the store alone
    client,     \* whether set_api_key has set the views' _client
    refreshOutcome, \* how the last _refresh_task_status ended
    taskId,     \* TaskRunner.task_id of the runner whose thread is described
    sigBase,    \* number of signals emitted when that runner's thread began
    downloaded, \* ids of the jobs whose own result download_file has stored
    now,        \* time.time(), in half seconds
    selRecord,  \* the record held by the selected item of HistoryView._list
    openEnabled, \* HistoryView._open_button.isEnabled()
    viewerUrl,  \* argument of the last openViewerRequested signal
    expiryCall  \* url, time and result of the last _is_url_expired call

monVars == <<running, pc, loop, stream, payload, exc, pollExc, emitted, calls, handled>>

openVars == <<now, selRecord, openEnabled, viewerUrl, expiryCall>>

appVars == <<curTaskId, curCreated, lastProgress, lastDownload, lastOptions,
             vpc, dlUrls, delivered, store, listed, nRefresh, lastRefresh,
             sse, upserts, client, refreshOutcome, taskId, sigBase, downloaded, openVars>>

vars == <<running, pc, loop, stream, payload, exc, pollExc, emitted, calls, handled,
          curTaskId, curCreated, lastProgress, lastDownload, lastOptions,
          vpc, dlUrls, delivered, store, listed, nRefresh, lastRefresh,
          sse, upserts, client, refreshOutcome, taskId, sigBase, downloaded, now, selRecord, openEnabled, viewerUrl,
          expiryCall>>

(***************************************************************************)
(* Bounds                                                                  *)
(***************************************************************************)
\* number of snapshots one session may hand to _handle_payload
MaxSnapshots == 2

(***************************************************************************)
(* Values                                                                  *)
(***************************************************************************)
\* no exception bound
NoExc == "<none>"

\* str() of int(float('inf')) failing: OverflowError is not caught at line 85
OverflowMsg == "cannot convert float infinity to integer"

\* str() of the exceptions the client calls can raise ("" is a bare exception)
StreamMsgs == {"", "Meshy SSE error: boom"}
PollMsgs == {"", "Meshy API request failed: timeout"}

\* payload.get("progress"): absent, a number (in thousandths), infinity
\* (json.loads reads 1e999 as inf), or a value float() rejects
PNone == [kind |-> "none", milli |-> 0]
PInf == [kind |-> "inf", milli |-> 0]
PBad == [kind |-> "bad", milli |-> 0]
PNum(n) == [kind |-> "num", milli |-> n]

ProgressValues == {PNone, PNum(420), PInf, PBad}

\* str(payload.get("status", ""))
Statuses == {"", "pending", "succeeded", "failed", "canceled"}

\* Python None
NoneVal == "<None>"

\* the ids create_image_to_3d_task returns for the first and the second
\* submission, and the id of a row of an earlier run
JobId == "job1"
JobId2 == "job2"
OldJobId == "job0"

\* payload.get("model_urls"): a dict, here a set of <<label, url>> entries
GlbUrl == "https://x/m.glb"
NoUrls == {}
GlbUrls == {<<"glb", GlbUrl>>}

\* payload.get("thumbnail_url") and payload.get("created_at")
ThumbUrl == "https://x/t.png"
RemoteTime == "2024-01-01T00:00:00"

\* the result fields a snapshot may carry besides status and progress
Bare == [model_urls |-> NoUrls, thumbnail_url |-> NoneVal, created_at |-> NoneVal]
Extras == {Bare,
           [model_urls |-> GlbUrls, thumbnail_url |-> NoneVal, created_at |-> NoneVal],
           [model_urls |-> GlbUrls, thumbnail_url |-> ThumbUrl, created_at |-> RemoteTime]}

MkPayload(s, g, e) ==
    [status |-> s, progress |-> g, model_urls |-> e.model_urls,
     thumbnail_url |-> e.thumbnail_url, created_at |-> e.created_at]

\* the snapshots of the remote; the result fields are only read from a
\* succeeded snapshot (generator_view.py lines 326-336)
Payloads ==
    {MkPayload(s, g, Bare) : s \in Statuses \ {"succeeded"}, g \in ProgressValues}
    \cup {MkPayload("succeeded", g, e) : g \in ProgressValues, e \in Extras}

NoPayload == MkPayload("", PNone, Bare)

\* the signals of TaskRunner
StatusChanged(s) == [sig |-> "statusChanged", status |-> s, progress |-> 0, reason |-> "", payload |-> NoPayload]
ProgressChanged(n) == [sig |-> "progressChanged", status |-> "", progress |-> n, reason |-> "", payload |-> NoPayload]
TaskCompleted(p) == [sig |-> "taskCompleted", status |-> "", progress |-> 0, reason |-> "", payload |-> p]
TaskFailed(r) == [sig |-> "taskFailed", status |-> "", progress |-> 0, reason |-> r, payload |-> NoPayload]

\* the values of a dict's entries: str, int, bool and None
PyStr(x) == [py |-> "str", s |-> x, n |-> 0]
PyInt(x) == [py |-> "int", s |-> "", n |-> x]
PyBool(x) == [py |-> "bool", s |-> "", n |-> IF x THEN 1 ELSE 0]
PyNone == [py |-> "None", s |-> "", n |-> 0]

\* the message of an SSE error event: error_payload.get("message", payload),
\* the value of the field or the raw text of the event
NoMsg == [given |-> FALSE, val |-> PyNone, raw |-> <<>>]

\* an exception leaving stream_image_to_3d_task, and none
Raised(type, about, msg) == [type |-> type, about |-> about, msg |-> msg]
NoRaise == Raised("", "", NoMsg)

\* the generator of stream_image_to_3d_task before it is created
SseIdle ==
    [events |-> <<>>, lines |-> <<>>, text |-> FALSE, status |-> 200, pc |-> "idle",
     event_type |-> NoneVal, data_lines |-> <<>>, yielded |-> <<>>, raised |-> NoRaise]

(***************************************************************************)
(* Pure parts of TaskRunner                                                *)
(***************************************************************************)
\* status in {"succeeded", "failed", "canceled"} (lines 61 and 69)
IsTerminalMut(s) == s \in {"succeeded", "failed"}

IsTerminal(s) == s \in {"succeeded", "failed", "canceled"}

\* int() truncates toward zero
Trunc(n, d) == IF n >= 0 THEN n \div d ELSE -((-n) \div d)

\* line 82-83: int(p * 100) in IEEE-754 double arithmetic, for p = n/1000 with
\* 0 <= n <= 1000.  The float product falls just below the integer for
\* 0.29, 0.57 and 0.58 (int(0.29 * 100) = 28), and nowhere else in this range.
FloatShort == {290, 570, 580}

Times100Int(n) == Trunc(n * 100, 1000) - (IF n \in FloatShort THEN 1 ELSE 0)

\* lines 77-86: what the progress block does with payload.get("progress")
ProgressOutcomeMut(g) ==
    CASE g.kind = "none" -> [emit |-> FALSE, value |-> 0, raises |-> FALSE]
      [] g.kind = "bad" -> [emit |-> FALSE, value |-> 0, raises |-> TRUE]
      [] g.kind = "inf" -> [emit |-> FALSE, value |-> 0, raises |-> TRUE]
      [] g.kind = "num" ->
            [emit |-> TRUE,
             value |-> IF 0 <= g.milli /\ g.milli <= 1000
                       THEN Times100Int(g.milli)
                       ELSE Trunc(g.milli, 1000),
             raises |-> FALSE]

ProgressOutcome(g) ==
    CASE g.kind = "none" -> [emit |-> FALSE, value |-> 0, raises |-> FALSE]
      [] g.kind = "bad" -> [emit |-> FALSE, value |-> 0, raises |-> FALSE]
      [] g.kind = "inf" -> [emit |-> FALSE, value |-> 0, raises |-> TRUE]
      [] g.kind = "num" ->
            [emit |-> TRUE,
             value |-> IF 0 <= g.milli /\ g.milli <= 1000
                       THEN Times100Int(g.milli)
                       ELSE Trunc(g.milli, 1000),
             raises |-> FALSE]

\* line 49: str(poll_exc) or str(exc)
FailReasonMut(pollMsg, streamMsg) == IF streamMsg # "" THEN streamMsg ELSE pollMsg

FailReason(pollMsg, streamMsg) == IF pollMsg # "" THEN pollMsg ELSE streamMsg

(***************************************************************************)
(* URLs of HistoryView (app/ui/history_view.py lines 173-194)              *)
(***************************************************************************)
\* length of a query value, and number of key=value pairs of a query
MaxValueLen == 2
MaxPairs == 2

\* the characters the query values are made of
Chars == {"1", "x"}

\* the values key=value can carry, the empty one included
QueryValues == UNION {[1..n -> Chars] : n \in 0..MaxValueLen}

\* the queries urlparse(url).query can hold, as sequences of <<key, value>>
QueryPairs == {"Expires", "expires"} \X QueryValues
Queries == UNION {[1..n -> QueryPairs] : n \in 0..MaxPairs}

\* a URL, the empty string, and None
Url(q) == [text |-> "https://x/m.glb", query |-> q]
EmptyUrl == [text |-> "", query |-> <<>>]
NoUrl == [text |-> NoneVal, query |-> <<>>]

\* Path(record.local_glb_path).as_uri()
FileUri(path) == [text |-> "file:///" \o path, query |-> <<>>]

\* the decimal digits and their values
Digits == {"0", "1", "2", "3", "4", "5", "6", "7", "8", "9"}

DigitValue(c) ==
    CASE c = "0" -> 0 [] c = "1" -> 1 [] c = "2" -> 2 [] c = "3" -> 3
      [] c = "4" -> 4 [] c = "5" -> 5 [] c = "6" -> 6 [] c = "7" -> 7
      [] c = "8" -> 8 [] c = "9" -> 9

\* int(text) succeeds: the text is a run of decimal digits
IsInteger(v) == v # <<>> /\ \A i \in 1..Len(v) : v[i] \in Digits

\* int(text), for such a text
RECURSIVE IntOf(_)
IntOf(v) ==
    IF v = <<>> THEN 0
    ELSE 10 * IntOf(SubSeq(v, 1, Len(v) - 1)) + DigitValue(v[Len(v)])

\* parse_qs(query).get(key): the non-blank values of the key in order, the
\* empty sequence when parse_qs has no such key (blank values are dropped)
ParseQsGet(query, key) ==
    LET kept == SelectSeq(query, LAMBDA p : p[1] = key /\ p[2] # <<>>)
    IN [i \in 1..Len(kept) |-> kept[i][2]]

\* _is_url_expired, lines 184-194, at time t (in half seconds)
IsUrlExpired(url, t) ==
    LET expires == IF ParseQsGet(url.query, "Expires") # <<>>
                   THEN ParseQsGet(url.query, "Expires")
                   ELSE ParseQsGet(url.query, "expires")
    IN IF expires = <<>> THEN FALSE
       ELSE IF ~IsInteger(expires[1]) THEN FALSE
       ELSE t > 2 * IntOf(expires[1])

\* model_urls.get("glb") or next(iter(model_urls.values()), None), for a
\* dict given as the sequence of its <<label, url>> items
PickUrl(urls) ==
    IF \E i \in 1..Len(urls) : urls[i][1] = "glb" /\ urls[i][2].text # ""
    THEN urls[CHOOSE i \in 1..Len(urls) : urls[i][1] = "glb"][2]
    ELSE IF urls # <<>> THEN urls[1][2] ELSE NoUrl

\* _resolve_model_url, lines 173-182
ResolveModelUrlMut(record, t) ==
    LET url == PickUrl(record.model_urls)
    IN IF url.text \in {NoneVal, ""} THEN NoUrl
       ELSE url

ResolveModelUrl(record, t) ==
    LET url == PickUrl(record.model_urls)
    IN IF url.text \in {NoneVal, ""} THEN NoUrl
       ELSE IF IsUrlExpired(url, t) THEN NoUrl
       ELSE url

\* the call of _is_url_expired that _resolve_model_url makes at line 180,
\* when it gets that far; prev is the call before
ExpiryCallOf(record, t, prev) ==
    LET url == PickUrl(record.model_urls)
    IN IF url.text \in {NoneVal, ""} THEN prev
       ELSE [url |-> url, at |-> t, result |-> IsUrlExpired(url, t)]

NoExpiryCall == [url |-> NoUrl, at |-> 0, result |-> FALSE]

\* HistoryView after __init__: nothing selected, the button disabled
OpenIdle ==
    /\ now = 0
    /\ selRecord = [model_urls |-> <<>>, local_glb_path |-> NoneVal]
    /\ openEnabled = FALSE
    /\ viewerUrl = NoUrl
    /\ expiryCall = NoExpiryCall

(***************************************************************************)
(* Initial state: the object after __init__, thread not started            *)
(***************************************************************************)
Init ==
    /\ running = TRUE
    /\ pc = "created"
    /\ loop = "stream"
    /\ stream = "new"
    /\ payload = NoPayload
    /\ exc = NoExc
    /\ pollExc = NoExc
    /\ emitted = <<>>
    /\ calls = <<>>
    /\ handled = <<>>
    /\ curTaskId = NoneVal
    /\ curCreated = NoneVal
    /\ lastProgress = PNone
    /\ lastDownload = NoneVal
    /\ lastOptions = NoneVal
    /\ vpc = "idle"
    /\ dlUrls = NoUrls
    /\ delivered = 0
    /\ store = <<>>
    /\ listed = <<>>
    /\ nRefresh = 0
    /\ lastRefresh = <<>>
    /\ sse = SseIdle
    /\ upserts = <<>>
    /\ client = TRUE
    /\ refreshOutcome = "none"
    /\ taskId = JobId
    /\ sigBase = 0
    /\ downloaded = {}
    /\ OpenIdle

(***************************************************************************)
(* stop(), called by another thread                                        *)
(***************************************************************************)
Stop ==
    /\ running
    /\ running' = FALSE
    /\ UNCHANGED <<pc, loop, stream, payload, exc, pollExc, emitted, calls, handled>>
    /\ UNCHANGED appVars

(***************************************************************************)
(* run() -> _run_streaming()                                               *)
(***************************************************************************)
\* lines 41-42, 56: the for loop starts the generator, which opens the stream
StartRun ==
    /\ pc = "created"
    /\ pc' = "stream_wait"
    /\ stream' = "live"
    /\ calls' = Append(calls, "open")
    /\ UNCHANGED <<running, loop, payload, exc, pollExc, emitted, handled>>
    /\ UNCHANGED appVars

\* the generator yields the payload of a "message" event
StreamYield ==
    /\ pc = "stream_wait"
    /\ Len(handled) < MaxSnapshots
    /\ \E p \in Payloads : payload' = p
    /\ pc' = "stream_got"
    /\ UNCHANGED <<running, loop, stream, exc, pollExc, emitted, calls, handled>>
    /\ UNCHANGED appVars

\* the generator raises (error event, bad JSON, transport fault)
StreamRaise ==
    /\ pc = "stream_wait"
    /\ \E m \in StreamMsgs : exc' = m
    /\ stream' = "failed"
    /\ pc' = "except"
    /\ UNCHANGED <<running, loop, payload, pollExc, emitted, calls, handled>>
    /\ UNCHANGED appVars

\* the generator is exhausted: the for loop ends, _run_streaming and run return
StreamEnd ==
    /\ pc = "stream_wait"
    /\ stream' = "closed"
    /\ pc' = "done"
    /\ UNCHANGED <<running, loop, payload, exc, pollExc, emitted, calls, handled>>
    /\ UNCHANGED appVars

\* lines 57-59
StreamCheckMut ==
    /\ pc = "stream_got"
    /\ IF ~running
       THEN /\ pc' = "stream_wait"
            /\ UNCHANGED handled
       ELSE /\ pc' = "h_status"
            /\ handled' = Append(handled, payload)
    /\ UNCHANGED <<running, loop, stream, payload, exc, pollExc, emitted, calls>>
    /\ UNCHANGED appVars

StreamCheck ==
    /\ pc = "stream_got"
    /\ IF ~running
       THEN /\ pc' = "done"
            /\ UNCHANGED handled
       ELSE /\ pc' = "h_status"
            /\ handled' = Append(handled, payload)
    /\ UNCHANGED <<running, loop, stream, payload, exc, pollExc, emitted, calls>>
    /\ UNCHANGED appVars

(***************************************************************************)
(* _handle_payload(payload)                                                *)
(***************************************************************************)
\* lines 74-76
HandleStatus ==
    /\ pc = "h_status"
    /\ emitted' = IF payload.status # ""
                  THEN Append(emitted, StatusChanged(payload.status))
                  ELSE emitted
    /\ pc' = "h_progress"
    /\ UNCHANGED <<running, loop, stream, payload, exc, pollExc, calls, handled>>
    /\ UNCHANGED appVars

\* lines 77-86; an exception leaving the block is caught in run()
HandleProgress ==
    /\ pc = "h_progress"
    /\ LET o == ProgressOutcome(payload.progress) IN
       IF o.raises
       THEN /\ IF loop = "stream"
               THEN /\ exc' = OverflowMsg
                    /\ pc' = "except"
                    /\ UNCHANGED pollExc
               ELSE /\ pollExc' = OverflowMsg
                    /\ pc' = "poll_except"
                    /\ UNCHANGED exc
            /\ UNCHANGED emitted
       ELSE /\ emitted' = IF o.emit
                          THEN Append(emitted, ProgressChanged(o.value))
                          ELSE emitted
            /\ pc' = "h_terminal"
            /\ UNCHANGED <<exc, pollExc>>
    /\ UNCHANGED <<running, loop, stream, payload, calls, handled>>
    /\ UNCHANGED appVars

\* lines 87-90
HandleTerminalMut ==
    /\ pc = "h_terminal"
    /\ emitted' = IF payload.status = "succeeded"
                  THEN Append(emitted, TaskCompleted(payload))
                  ELSE IF payload.status # ""
                       THEN Append(emitted, TaskFailed("Task " \o payload.status))
                       ELSE emitted
    /\ pc' = "tail"
    /\ UNCHANGED <<running, loop, stream, payload, exc, pollExc, calls, handled>>
    /\ UNCHANGED appVars

HandleTerminal ==
    /\ pc = "h_terminal"
    /\ emitted' = IF payload.status = "succeeded"
                  THEN Append(emitted, TaskCompleted(payload))
                  ELSE IF payload.status \in {"failed", "canceled"}
                       THEN Append(emitted, TaskFailed("Task " \o payload.status))
                       ELSE emitted
    /\ pc' = "tail"
    /\ UNCHANGED <<running, loop, stream, payload, exc, pollExc, calls, handled>>
    /\ UNCHANGED appVars

\* lines 60-62 and 68-71: return on a terminal status, else read on or sleep
LoopTailMut ==
    /\ pc = "tail"
    /\ IF IsTerminal(payload.status)
       THEN /\ pc' = "done"
            /\ UNCHANGED calls
       ELSE IF loop = "stream"
            THEN /\ pc' = "stream_wait"
                 /\ calls' = Append(calls, "read")
            ELSE /\ pc' = "poll_loop"
                 /\ UNCHANGED calls
    /\ UNCHANGED <<running, loop, stream, payload, exc, pollExc, emitted, handled>>
    /\ UNCHANGED appVars

LoopTail ==
    /\ pc = "tail"
    /\ IF IsTerminal(payload.status)
       THEN /\ pc' = "done"
            /\ UNCHANGED calls
       ELSE IF loop = "stream"
            THEN /\ pc' = "stream_wait"
                 /\ calls' = Append(calls, "read")
            ELSE /\ pc' = "sleeping"
                 /\ calls' = Append(calls, "sleep")
    /\ UNCHANGED <<running, loop, stream, payload, exc, pollExc, emitted, handled>>
    /\ UNCHANGED appVars

(***************************************************************************)
(* run(): the handler of the streaming attempt, and _run_polling()         *)
(***************************************************************************)
\* lines 43-47
CatchStreamNoFallback ==
    /\ pc = "except"
    /\ pc' = "done"
    /\ UNCHANGED <<running, loop, stream, payload, exc, pollExc, emitted, calls, handled>>
    /\ UNCHANGED appVars

CatchStreamMut ==
    /\ pc = "except"
    /\ pc' = "poll_loop"
    /\ loop' = "poll"
    /\ calls' = Append(calls, "poll")
    /\ UNCHANGED <<running, stream, payload, exc, pollExc, emitted, handled>>
    /\ UNCHANGED appVars

CatchStream ==
    /\ pc = "except"
    /\ IF ~running
       THEN /\ pc' = "done"
            /\ UNCHANGED <<loop, calls>>
       ELSE /\ pc' = "poll_loop"
            /\ loop' = "poll"
            /\ calls' = Append(calls, "poll")
    /\ UNCHANGED <<running, stream, payload, exc, pollExc, emitted, handled>>
    /\ UNCHANGED appVars

\* lines 65-66: the loop condition, then the fetch is issued
PollGuard ==
    /\ pc = "poll_loop"
    /\ IF running
       THEN /\ pc' = "poll_wait"
            /\ calls' = Append(calls, "fetch")
       ELSE /\ pc' = "done"
            /\ UNCHANGED calls
    /\ UNCHANGED <<running, loop, stream, payload, exc, pollExc, emitted, handled>>
    /\ UNCHANGED appVars

\* lines 66-67: the fetch returns a snapshot, which is handled unconditionally
PollReturn ==
    /\ pc = "poll_wait"
    /\ Len(handled) < MaxSnapshots
    /\ \E p \in Payloads :
          /\ payload' = p
          /\ handled' = Append(handled, p)
    /\ pc' = "h_status"
    /\ UNCHANGED <<running, loop, stream, exc, pollExc, emitted, calls>>
    /\ UNCHANGED appVars

\* line 66: the fetch raises
PollRaise ==
    /\ pc = "poll_wait"
    /\ \E m \in PollMsgs : pollExc' = m
    /\ pc' = "poll_except"
    /\ UNCHANGED <<running, loop, stream, payload, exc, emitted, calls, handled>>
    /\ UNCHANGED appVars

\* lines 48-49
CatchPollMut ==
    /\ pc = "poll_except"
    /\ pc' = "done"
    /\ UNCHANGED <<running, loop, stream, payload, exc, pollExc, emitted, calls, handled>>
    /\ UNCHANGED appVars

CatchPoll ==
    /\ pc = "poll_except"
    /\ emitted' = Append(emitted, TaskFailed(FailReason(pollExc, exc)))
    /\ pc' = "done"
    /\ UNCHANGED <<running, loop, stream, payload, exc, pollExc, calls, handled>>
    /\ UNCHANGED appVars

\* line 71: time.sleep returns
Wake ==
    /\ pc = "sleeping"
    /\ pc' = "poll_loop"
    /\ UNCHANGED <<running, loop, stream, payload, exc, pollExc, emitted, calls, handled>>
    /\ UNCHANGED appVars

Next ==
    \/ Stop
    \/ StartRun
    \/ StreamYield
    \/ StreamRaise
    \/ StreamEnd
    \/ StreamCheck
    \/ HandleStatus
    \/ HandleProgress
    \/ HandleTerminal
    \/ LoopTail
    \/ CatchStream
    \/ PollGuard
    \/ PollReturn
    \/ PollRaise
    \/ CatchPoll
    \/ Wake

Spec == Init /\ [][Next]_vars

\* the steps of the monitor thread
RunStep ==
    \/ StartRun
    \/ StreamYield
    \/ StreamRaise
    \/ StreamEnd
    \/ StreamCheck
    \/ HandleStatus
    \/ HandleProgress
    \/ HandleTerminal
    \/ LoopTail
    \/ CatchStream
    \/ PollGuard
    \/ PollReturn
    \/ PollRaise
    \/ CatchPoll
    \/ Wake

\* the started thread keeps running: a client call in flight returns or
\* raises, time.sleep returns, and every other statement completes
LiveSpec == Init /\ [][Next]_vars /\ WF_vars(RunStep)

(***************************************************************************)
(* _handle_payload as a function of the snapshot: the monitor handling the *)
(* first snapshot of the stream, for every progress value from 0.000 to    *)
(* 1.000 and some outside that range                                       *)
(***************************************************************************)
HandleProgressValues ==
    {PNum(n) : n \in 0..1000}
    \cup {PNum(1001), PNum(1500), PNum(42000), PNum(150000), PNum(-1), PNum(-3700)}
    \cup {PNone, PBad, PInf}

HandleInit ==
    /\ running = TRUE
    /\ pc = "h_status"
    /\ loop = "stream"
    /\ stream = "live"
    /\ \E s \in Statuses, g \in HandleProgressValues :
          /\ payload = MkPayload(s, g, Bare)
          /\ handled = <<MkPayload(s, g, Bare)>>
    /\ exc = NoExc
    /\ pollExc = NoExc
    /\ emitted = <<>>
    /\ calls = <<"open">>
    /\ curTaskId = NoneVal
    /\ curCreated = NoneVal
    /\ lastProgress = PNone
    /\ lastDownload = NoneVal
    /\ lastOptions = NoneVal
    /\ vpc = "idle"
    /\ dlUrls = NoUrls
    /\ delivered = 0
    /\ store = <<>>
    /\ listed = <<>>
    /\ nRefresh = 0
    /\ lastRefresh = <<>>
    /\ sse = SseIdle
    /\ upserts = <<>>
    /\ client = TRUE
    /\ refreshOutcome = "none"
    /\ taskId = JobId
    /\ sigBase = 0
    /\ downloaded = {}
    /\ OpenIdle

HandleNext ==
    \/ HandleStatus
    \/ HandleProgress
    \/ HandleTerminal

HandleSpec == HandleInit /\ [][HandleNext]_vars

(***************************************************************************)
(* The tasks table (app/core/storage.py)                                   *)
(***************************************************************************)
\* TaskHistoryRecord
Rec(id, created, status, progress, thumb, urls, options, path) ==
    [task_id |-> id, created_at |-> created, status |-> status,
     progress |-> progress, thumbnail_url |-> thumb, model_urls |-> urls,
     options |-> options, local_glb_path |-> path]

\* upsert: INSERT ... ON CONFLICT(task_id) DO UPDATE SET every other column
UpsertMut(rows, r) == Append(rows, r)

Upsert(rows, r) ==
    IF \E i \in 1..Len(rows) : rows[i].task_id = r.task_id
    THEN [i \in 1..Len(rows) |-> IF rows[i].task_id = r.task_id THEN r ELSE rows[i]]
    ELSE Append(rows, r)

\* the rows SELECT ... WHERE task_id = ? finds
RowsOf(rows, id) == {i \in 1..Len(rows) : rows[i].task_id = id}

\* fetch_by_id, for an id that has a row
FetchById(rows, id) == rows[CHOOSE i \in RowsOf(rows, id) : TRUE]

(***************************************************************************)
(* Values of the application                                               *)
(***************************************************************************)
\* datetime.utcnow().isoformat() at submission, and in a later handler
SubmitTime == "2024-06-01T10:00:00"
LaterTime == "2024-06-01T10:05:00"

\* _collect_options()
Options == "options"

\* download_dir / "meshy_model.glb", as_posix()
GlbPath == "downloads/meshy_model.glb"

\* a row written by an earlier run of the application
OldRec == Rec(OldJobId, "2024-05-01T09:00:00", "succeeded", PNum(100000),
              ThumbUrl, GlbUrls, Options, NoneVal)

\* payload.get("options") of a snapshot that carries them
RemoteOptions == "remote options"

\* a snapshot with its options field (None when absent)
WithOptions(p, o) ==
    [status |-> p.status, progress |-> p.progress, model_urls |-> p.model_urls,
     thumbnail_url |-> p.thumbnail_url, created_at |-> p.created_at,
     options |-> o]

\* the snapshots get_image_to_3d_task returns to an on-demand refresh
RefreshSnapshots ==
    {WithOptions(MkPayload("", PNone, Bare), NoneVal),
     WithOptions(MkPayload("pending", PNum(420), Bare), NoneVal),
     WithOptions(MkPayload("succeeded", PNone,
                           [model_urls |-> GlbUrls, thumbnail_url |-> ThumbUrl,
                            created_at |-> RemoteTime]), RemoteOptions)}

\* number of on-demand refreshes
MaxRefresh == 2

\* x or y, for strings and None
OrElse(x, y) == IF x # NoneVal /\ x # "" THEN x ELSE y

\* model_urls.get("glb") or next(iter(model_urls.values()), None)
ResolveUrl(urls) ==
    IF \E e \in urls : e[1] = "glb" /\ e[2] # ""
    THEN (CHOOSE e \in urls : e[1] = "glb" /\ e[2] # "")[2]
    ELSE IF urls # {} THEN (CHOOSE e \in urls : TRUE)[2]
    ELSE NoneVal

(***************************************************************************)
(* Initial state of the application: both views constructed, logged in if  *)
(* a key was saved, one row of an earlier run in the table, no job         *)
(* submitted                                                               *)
(***************************************************************************)
AppInit ==
    /\ running = TRUE
    /\ pc = "absent"
    /\ loop = "stream"
    /\ stream = "new"
    /\ payload = NoPayload
    /\ exc = NoExc
    /\ pollExc = NoExc
    /\ emitted = <<>>
    /\ calls = <<>>
    /\ handled = <<>>
    /\ curTaskId = NoneVal
    /\ curCreated = NoneVal
    /\ lastProgress = PNone
    /\ lastDownload = NoneVal
    /\ lastOptions = NoneVal
    /\ vpc = "idle"
    /\ dlUrls = NoUrls
    /\ delivered = 0
    /\ store = <<OldRec>>
    /\ listed = <<OldRec>>
    /\ nRefresh = 0
    /\ lastRefresh = <<>>
    /\ sse = SseIdle
    /\ upserts = <<>>
    /\ client \in BOOLEAN
    /\ refreshOutcome = "none"
    /\ taskId = NoneVal
    /\ sigBase = 0
    /\ downloaded = {}
    /\ OpenIdle

(***************************************************************************)
(* GeneratorView (app/ui/generator_view.py)                                *)
(***************************************************************************)
\* _handle_generate, lines 221-268: the job is created, its row written, and
\* a TaskRunner constructed and started
Submit ==
    /\ client
    /\ pc = "absent"
    /\ vpc = "idle"
    /\ curTaskId' = JobId
    /\ curCreated' = SubmitTime
    /\ lastOptions' = Options
    /\ store' = Upsert(store, Rec(JobId, SubmitTime, "PENDING", PNone, NoneVal,
                                  NoUrls, Options, NoneVal))
    /\ pc' = "created"
    /\ UNCHANGED <<running, loop, stream, payload, exc, pollExc, emitted, calls, handled>>
    /\ UNCHANGED <<lastProgress, lastDownload, vpc, dlUrls, delivered, listed, nRefresh>>
    /\ taskId' = JobId
    /\ UNCHANGED <<sse, upserts, lastRefresh, client, refreshOutcome, sigBase, downloaded>>
    /\ UNCHANGED openVars

\* the job whose TaskRunner emitted the i-th signal
SigJob(i) == IF taskId = JobId2 /\ i > sigBase THEN JobId2 ELSE JobId

\* the next queued signal
NextSignal == emitted[delivered + 1]

CanDeliver(sig) ==
    /\ vpc = "idle"
    /\ delivered < Len(emitted)
    /\ NextSignal.sig = sig

\* _handle_status_update, lines 293-307
DeliverStatus ==
    /\ CanDeliver("statusChanged")
    /\ delivered' = delivered + 1
    /\ store' = IF curTaskId = NoneVal THEN store
                ELSE Upsert(store, Rec(curTaskId, OrElse(curCreated, LaterTime),
                                       NextSignal.status, lastProgress, NoneVal,
                                       NoUrls, lastOptions, NoneVal))
    /\ UNCHANGED monVars
    /\ UNCHANGED <<curTaskId, curCreated, lastProgress, lastDownload, lastOptions,
                   vpc, dlUrls, listed, nRefresh>>
    /\ UNCHANGED <<sse, upserts, lastRefresh, client, refreshOutcome, taskId, sigBase, downloaded>>
    /\ UNCHANGED openVars

\* _handle_progress_update, lines 309-323
DeliverProgress ==
    /\ CanDeliver("progressChanged")
    /\ delivered' = delivered + 1
    /\ lastProgress' = PNum(NextSignal.progress * 1000)
    /\ store' = IF curTaskId = NoneVal THEN store
                ELSE Upsert(store, Rec(curTaskId, OrElse(curCreated, LaterTime),
                                       "IN_PROGRESS", lastProgress', NoneVal,
                                       NoUrls, lastOptions, NoneVal))
    /\ UNCHANGED monVars
    /\ UNCHANGED <<curTaskId, curCreated, lastDownload, lastOptions,
                   vpc, dlUrls, listed, nRefresh>>
    /\ UNCHANGED <<sse, upserts, lastRefresh, client, refreshOutcome, taskId, sigBase, downloaded>>
    /\ UNCHANGED openVars

\* _handle_task_complete, lines 325-341, and _download_glb up to the start of
\* the download, lines 346-359
DeliverCompleted ==
    /\ CanDeliver("taskCompleted")
    /\ delivered' = delivered + 1
    /\ LET p == NextSignal.payload IN
       /\ store' = Upsert(store, Rec(OrElse(curTaskId, ""),
                                     OrElse(p.created_at, LaterTime),
                                     p.status, lastProgress, p.thumbnail_url,
                                     p.model_urls, lastOptions, lastDownload))
       /\ IF ResolveUrl(p.model_urls) = NoneVal
          THEN UNCHANGED <<vpc, dlUrls>>
          ELSE /\ vpc' = "downloading"
               /\ dlUrls' = p.model_urls
    /\ UNCHANGED monVars
    /\ UNCHANGED <<curTaskId, curCreated, lastProgress, lastDownload, lastOptions,
                   listed, nRefresh>>
    /\ UNCHANGED <<sse, upserts, lastRefresh, client, refreshOutcome, taskId, sigBase, downloaded>>
    /\ UNCHANGED openVars

\* _download_glb, lines 358-376: download_file raises, or returns and the row
\* is written again
DownloadDone ==
    /\ vpc = "downloading"
    /\ vpc' = "idle"
    /\ dlUrls' = NoUrls
    /\ \E ok \in BOOLEAN :
          IF ~ok
          THEN UNCHANGED <<lastDownload, store, downloaded>>
          ELSE /\ lastDownload' = GlbPath
               /\ downloaded' = downloaded \cup {SigJob(delivered)}
               /\ store' = IF curTaskId = NoneVal THEN store
                           ELSE Upsert(store, Rec(curTaskId, OrElse(curCreated, LaterTime),
                                                  "succeeded", lastProgress, NoneVal,
                                                  dlUrls, lastOptions, GlbPath))
    /\ UNCHANGED monVars
    /\ UNCHANGED <<curTaskId, curCreated, lastProgress, lastOptions,
                   delivered, listed, nRefresh>>
    /\ UNCHANGED <<sse, upserts, lastRefresh, client, refreshOutcome, taskId, sigBase>>
    /\ UNCHANGED openVars

\* _handle_task_failed, lines 343-344
DeliverFailed ==
    /\ CanDeliver("taskFailed")
    /\ delivered' = delivered + 1
    /\ UNCHANGED monVars
    /\ UNCHANGED <<curTaskId, curCreated, lastProgress, lastDownload, lastOptions,
                   vpc, dlUrls, store, listed, nRefresh>>
    /\ UNCHANGED <<sse, upserts, lastRefresh, client, refreshOutcome, taskId, sigBase, downloaded>>
    /\ UNCHANGED openVars

(***************************************************************************)
(* HistoryView (app/ui/history_view.py)                                    *)
(***************************************************************************)
\* lines 150-159: the record _refresh_task_status writes
Merged(record, snap) ==
    Rec(record.task_id,
        OrElse(snap.created_at, record.created_at),
        OrElse(snap.status, record.status),
        snap.progress,
        OrElse(snap.thumbnail_url, record.thumbnail_url),
        IF snap.model_urls # {} THEN snap.model_urls ELSE record.model_urls,
        OrElse(snap.options, record.options),
        record.local_glb_path)

\* _handle_selection -> _refresh_task_status, lines 129-163: the record of the
\* selected item is merged with the fetched snapshot, written, and the list
\* is reloaded
SelectRefresh ==
    /\ vpc = "idle"
    /\ client
    /\ nRefresh < MaxRefresh
    /\ nRefresh' = nRefresh + 1
    /\ refreshOutcome' = "upserted"
    /\ \E k \in 1..Len(listed), snap \in RefreshSnapshots :
          /\ store' = Upsert(store, Merged(listed[k], snap))
          /\ listed' = store'
          /\ lastRefresh' = <<listed[k], snap>>
    /\ UNCHANGED monVars
    /\ UNCHANGED <<curTaskId, curCreated, lastProgress, lastDownload, lastOptions,
                   vpc, dlUrls, delivered>>
    /\ UNCHANGED <<sse, upserts, client, taskId, sigBase, downloaded>>
    /\ UNCHANGED openVars

\* lines 144-149: the fetch raises MeshyApiError
SelectRefreshFailsMut ==
    /\ vpc = "idle"
    /\ client
    /\ nRefresh < MaxRefresh
    /\ listed # <<>>
    /\ nRefresh' = nRefresh + 1
    /\ refreshOutcome' = "fetch failed"
    /\ \E k \in 1..Len(listed) :
          store' = Upsert(store, Merged(listed[k],
                            WithOptions(MkPayload("failed", PNone, Bare), NoneVal)))
    /\ UNCHANGED monVars
    /\ UNCHANGED <<curTaskId, curCreated, lastProgress, lastDownload, lastOptions,
                   vpc, dlUrls, delivered, listed>>
    /\ UNCHANGED <<sse, upserts, lastRefresh, client, taskId, sigBase, downloaded>>
    /\ UNCHANGED openVars

SelectRefreshFails ==
    /\ vpc = "idle"
    /\ client
    /\ nRefresh < MaxRefresh
    /\ listed # <<>>
    /\ nRefresh' = nRefresh + 1
    /\ refreshOutcome' = "fetch failed"
    /\ UNCHANGED monVars
    /\ UNCHANGED <<curTaskId, curCreated, lastProgress, lastDownload, lastOptions,
                   vpc, dlUrls, delivered, store, listed>>
    /\ UNCHANGED <<sse, upserts, lastRefresh, client, taskId, sigBase, downloaded>>
    /\ UNCHANGED openVars

\* lines 140-143: no client has been set, nothing is fetched
SelectRefreshNoClient ==
    /\ vpc = "idle"
    /\ ~client
    /\ nRefresh < MaxRefresh
    /\ listed # <<>>
    /\ nRefresh' = nRefresh + 1
    /\ refreshOutcome' = "no client"
    /\ UNCHANGED monVars
    /\ UNCHANGED <<curTaskId, curCreated, lastProgress, lastDownload, lastOptions,
                   vpc, dlUrls, delivered, store, listed>>
    /\ UNCHANGED <<sse, upserts, lastRefresh, client, taskId, sigBase, downloaded>>
    /\ UNCHANGED openVars

\* MainWindow._handle_login (main.py, lines 82-85): set_api_key of both views
\* builds their clients
HandleLogin ==
    /\ ~client
    /\ client' = TRUE
    /\ UNCHANGED monVars
    /\ UNCHANGED <<curTaskId, curCreated, lastProgress, lastDownload, lastOptions,
                   vpc, dlUrls, delivered, store, listed, nRefresh>>
    /\ UNCHANGED <<sse, upserts, lastRefresh, refreshOutcome, taskId, sigBase, downloaded>>
    /\ UNCHANGED openVars

\* the snapshots the remote sends in the application runs explored
AppPayloads ==
    {p \in Payloads : p.status \in {"pending", "succeeded", "failed"}
                       /\ p.progress.kind # "bad"}

AppStreamYield == StreamYield /\ payload' \in AppPayloads

AppPollReturn == PollReturn /\ payload' \in AppPayloads

AppNext ==
    \/ Submit
    \/ StartRun
    \/ AppStreamYield
    \/ StreamRaise
    \/ StreamEnd
    \/ StreamCheck
    \/ HandleStatus
    \/ HandleProgress
    \/ HandleTerminal
    \/ LoopTail
    \/ CatchStream
    \/ PollGuard
    \/ AppPollReturn
    \/ PollRaise
    \/ CatchPoll
    \/ Wake
    \/ DeliverStatus
    \/ DeliverProgress
    \/ DeliverCompleted
    \/ DownloadDone
    \/ DeliverFailed
    \/ SelectRefresh
    \/ SelectRefreshFails
    \/ SelectRefreshNoClient
    \/ HandleLogin

\* the application never calls TaskRunner.stop()
AppSpec == AppInit /\ [][AppNext]_vars

(***************************************************************************)
(* Opening a stored model from HistoryView: the selected record, the       *)
(* "Open in Viewer" button and the clock                                   *)
(***************************************************************************)
\* time.time() at the calls, in half seconds: 0.5, 1.0, 1.5, 11.0 and 11.5
Times == {1, 2, 3, 22, 23}

\* a URL that carries no expiry
PlainUrl == Url(<<>>)

\* record.model_urls of some records with several entries, or none
OpenUrlDicts ==
    {<<>>,
     <<<<"glb", PlainUrl>>>>,
     <<<<"glb", Url(<<<<"Expires", <<"2", "0">>>>>>)>>>>,
     <<<<"obj", Url(<<<<"Expires", <<"1">>>>>>)>>>>,
     <<<<"glb", EmptyUrl>>, <<"obj", PlainUrl>>>>,
     <<<<"obj", PlainUrl>>, <<"glb", EmptyUrl>>>>,
     <<<<"obj", PlainUrl>>, <<"glb", Url(<<<<"expires", <<"2">>>>>>)>>>>}

\* the records that can be selected: a "glb" URL with every query and no
\* local file, and the records above with and without a local file
OpenRecords ==
    {[model_urls |-> <<<<"glb", Url(q)>>>>, local_glb_path |-> NoneVal] : q \in Queries}
    \cup {[model_urls |-> d, local_glb_path |-> path] :
              d \in OpenUrlDicts, path \in {NoneVal, GlbPath}}

OpenInit ==
    /\ running = TRUE
    /\ pc = "absent"
    /\ loop = "stream"
    /\ stream = "new"
    /\ payload = NoPayload
    /\ exc = NoExc
    /\ pollExc = NoExc
    /\ emitted = <<>>
    /\ calls = <<>>
    /\ handled = <<>>
    /\ curTaskId = NoneVal
    /\ curCreated = NoneVal
    /\ lastProgress = PNone
    /\ lastDownload = NoneVal
    /\ lastOptions = NoneVal
    /\ vpc = "idle"
    /\ dlUrls = NoUrls
    /\ delivered = 0
    /\ store = <<OldRec>>
    /\ listed = <<OldRec>>
    /\ nRefresh = 0
    /\ lastRefresh = <<>>
    /\ sse = SseIdle
    /\ upserts = <<>>
    /\ client = TRUE
    /\ refreshOutcome = "none"
    /\ taskId = NoneVal
    /\ sigBase = 0
    /\ downloaded = {}
    /\ now \in Times
    /\ selRecord \in OpenRecords
    /\ openEnabled = FALSE
    /\ viewerUrl = NoUrl
    /\ expiryCall = NoExpiryCall

\* the clock advances
Tick ==
    /\ \E t \in Times : t > now /\ now' = t
    /\ UNCHANGED <<selRecord, openEnabled, viewerUrl, expiryCall>>
    /\ UNCHANGED monVars
    /\ UNCHANGED <<curTaskId, curCreated, lastProgress, lastDownload, lastOptions,
                   vpc, dlUrls, delivered, store, listed, nRefresh>>
    /\ UNCHANGED <<sse, upserts, lastRefresh, client, refreshOutcome, taskId, sigBase, downloaded>>

\* _update_open_state, lines 165-171, for the selected record
UpdateOpenState ==
    /\ openEnabled' = (\/ selRecord.local_glb_path # NoneVal
                       \/ ResolveModelUrl(selRecord, now) # NoUrl)
    /\ expiryCall' = ExpiryCallOf(selRecord, now, expiryCall)
    /\ UNCHANGED <<now, selRecord, viewerUrl>>
    /\ UNCHANGED monVars
    /\ UNCHANGED <<curTaskId, curCreated, lastProgress, lastDownload, lastOptions,
                   vpc, dlUrls, delivered, store, listed, nRefresh>>
    /\ UNCHANGED <<sse, upserts, lastRefresh, client, refreshOutcome, taskId, sigBase, downloaded>>

\* _handle_open, lines 196-211: the enabled button is clicked
HandleOpen ==
    /\ openEnabled
    /\ IF selRecord.local_glb_path # NoneVal
       THEN /\ viewerUrl' = FileUri(selRecord.local_glb_path)
            /\ UNCHANGED <<openEnabled, expiryCall>>
       ELSE /\ expiryCall' = ExpiryCallOf(selRecord, now, expiryCall)
            /\ IF ResolveModelUrl(selRecord, now) # NoUrl
               THEN /\ viewerUrl' = ResolveModelUrl(selRecord, now)
                    /\ UNCHANGED openEnabled
               ELSE /\ openEnabled' = FALSE
                    /\ UNCHANGED viewerUrl
    /\ UNCHANGED <<now, selRecord>>
    /\ UNCHANGED monVars
    /\ UNCHANGED <<curTaskId, curCreated, lastProgress, lastDownload, lastOptions,
                   vpc, dlUrls, delivered, store, listed, nRefresh>>
    /\ UNCHANGED <<sse, upserts, lastRefresh, client, refreshOutcome, taskId, sigBase, downloaded>>

OpenNext ==
    \/ Tick
    \/ UpdateOpenState
    \/ HandleOpen

OpenSpec == OpenInit /\ [][OpenNext]_vars

(***************************************************************************)
(* A second submission in the same GeneratorView.  _handle_generate has no *)
(* guard against a job in flight: it overwrites _current_task_id,          *)
(* _current_created_at, _last_options and _task_runner, and leaves         *)
(* _last_progress and _last_download as they are.  The slots of the first  *)
(* runner stay connected.  The thread of the second runner is followed     *)
(* from the moment the first runner's run() has returned.                  *)
(***************************************************************************)
\* datetime.utcnow().isoformat() at the second submission
SubmitTime2 == "2024-06-01T11:00:00"

\* _handle_generate, lines 221-268, called again
SubmitAgain ==
    /\ curTaskId = JobId
    /\ vpc = "idle"
    /\ curTaskId' = JobId2
    /\ curCreated' = SubmitTime2
    /\ lastOptions' = Options
    /\ store' = Upsert(store, Rec(JobId2, SubmitTime2, "PENDING", PNone, NoneVal,
                                  NoUrls, Options, NoneVal))
    /\ UNCHANGED monVars
    /\ UNCHANGED <<lastProgress, lastDownload, vpc, dlUrls, delivered, listed, nRefresh>>
    /\ UNCHANGED <<sse, upserts, lastRefresh, client, refreshOutcome, taskId, sigBase, downloaded>>
    /\ UNCHANGED openVars

\* line 262: the first TaskRunner lost its only reference while its thread
\* is running; Qt may end the process ("QThread: Destroyed while thread is
\* still running") or the thread may run on
RunnerDestroyed ==
    /\ curTaskId = JobId2
    /\ taskId = JobId
    /\ pc \notin {"done", "aborted"}
    /\ pc' = "aborted"
    /\ vpc' = "aborted"
    /\ UNCHANGED <<running, loop, stream, payload, exc, pollExc, emitted, calls, handled>>
    /\ UNCHANGED <<curTaskId, curCreated, lastProgress, lastDownload, lastOptions,
                   dlUrls, delivered, store, listed, nRefresh>>
    /\ UNCHANGED <<sse, upserts, lastRefresh, client, refreshOutcome, taskId, sigBase, downloaded>>
    /\ UNCHANGED openVars

\* the thread of the second TaskRunner (task_runner.py lines 32-42, 56):
\* a new object after __init__, whose run() opens the stream
StartSecondRun ==
    /\ pc = "done"
    /\ taskId = JobId
    /\ curTaskId = JobId2
    /\ taskId' = JobId2
    /\ sigBase' = Len(emitted)
    /\ running' = TRUE
    /\ loop' = "stream"
    /\ payload' = NoPayload
    /\ exc' = NoExc
    /\ pollExc' = NoExc
    /\ handled' = <<>>
    /\ pc' = "stream_wait"
    /\ stream' = "live"
    /\ calls' = <<"open">>
    /\ UNCHANGED emitted
    /\ UNCHANGED <<curTaskId, curCreated, lastProgress, lastDownload, lastOptions,
                   vpc, dlUrls, delivered, store, listed, nRefresh>>
    /\ UNCHANGED <<sse, upserts, lastRefresh, client, refreshOutcome, downloaded>>
    /\ UNCHANGED openVars

\* the snapshots the remote sends in the runs with two jobs
JobsPayloads ==
    {p \in Payloads : /\ p.status \in {"pending", "succeeded"}
                      /\ p.progress.kind \in {"none", "num"}
                      /\ p.thumbnail_url = NoneVal}

JobsStreamYield == StreamYield /\ payload' \in JobsPayloads

JobsNext ==
    \/ HandleLogin
    \/ Submit
    \/ SubmitAgain
    \/ RunnerDestroyed
    \/ StartRun
    \/ StartSecondRun
    \/ JobsStreamYield
    \/ StreamEnd
    \/ StreamCheck
    \/ HandleStatus
    \/ HandleProgress
    \/ HandleTerminal
    \/ LoopTail
    \/ DeliverStatus
    \/ DeliverProgress
    \/ DeliverCompleted
    \/ DownloadDone

\* two jobs submitted one after the other in one GeneratorView, the streams
\* delivering snapshots without faults
JobsSpec == AppInit /\ [][JobsNext]_vars

(***************************************************************************)
(* Helpers for the properties                                              *)
(***************************************************************************)
IsTerminalSig(e) == e.sig \in {"taskCompleted", "taskFailed"}

Count(s, x) == Cardinality({i \in 1..Len(s) : s[i] = x})

CountSig(s, g) == Cardinality({i \in 1..Len(s) : s[i].sig = g})

TypeOK ==
    /\ running \in BOOLEAN
    /\ pc \in {"created", "stream_wait", "stream_got", "h_status", "h_progress",
               "h_terminal", "tail", "except", "poll_loop", "poll_wait",
               "poll_except", "sleeping", "done"}
    /\ loop \in {"stream", "poll"}
    /\ stream \in {"new", "live", "failed", "closed"}
    /\ payload \in Payloads
    /\ exc \in {NoExc, OverflowMsg} \cup StreamMsgs
    /\ pollExc \in {NoExc, OverflowMsg} \cup PollMsgs
    /\ Len(handled) <= MaxSnapshots

Last(s) == s[Len(s)]

\* the client operations among the started operations
NetOps(s) == SelectSeq(s, LAMBDA c : c \in {"open", "read", "fetch"})

\* positions of the monitor thread outside _handle_payload
QuietPcs == {"created", "stream_wait", "stream_got", "tail", "except",
             "poll_loop", "poll_wait", "poll_except", "sleeping", "done"}

(***************************************************************************)
(* The tasks table column by column (app/core/storage.py): what upsert     *)
(* binds to the statement, what the columns hold and what _row_to_record   *)
(* reads back                                                              *)
(***************************************************************************)
\* number of upsert calls in a run of the store alone
MaxUpserts == 3

\* the values of a column: NULL, TEXT and REAL (in thousandths, or infinity)
SqlNull == [sql |-> "null", s |-> "", milli |-> 0, inf |-> FALSE]
SqlText(x) == [sql |-> "text", s |-> x, milli |-> 0, inf |-> FALSE]
SqlReal(m, i) == [sql |-> "real", s |-> "", milli |-> m, inf |-> i]

\* a str or None bound to a TEXT column, and read back
BindText(x) == IF x = NoneVal THEN SqlNull ELSE SqlText(x)

ReadText(c) == IF c.sql = "null" THEN NoneVal ELSE c.s

\* an int, a float or None bound to the REAL column progress, and read back
BindReal(g) ==
    IF g.kind = "none" THEN SqlNull
    ELSE SqlReal(g.milli, g.kind = "inf")

ReadReal(c) ==
    IF c.sql = "null" THEN PNone
    ELSE IF c.inf THEN PInf
    ELSE PNum(c.milli)

\* JSON text as the sequence of its tokens
Tok(k) == [t |-> k, s |-> "", n |-> 0]
StrTok(x) == [t |-> "string", s |-> x, n |-> 0]
NumTok(x) == [t |-> "number", s |-> "", n |-> x]

\* json.dumps of an entry's value
DumpValue(v) ==
    CASE v.py = "str" -> StrTok(v.s)
      [] v.py = "int" -> NumTok(v.n)
      [] v.py = "bool" -> Tok(IF v.n = 1 THEN "true" ELSE "false")
      [] OTHER -> Tok("null")

RECURSIVE DumpItems(_)
DumpItems(d) ==
    IF d = <<>> THEN <<>>
    ELSE <<StrTok(d[1][1]), Tok(":"), DumpValue(d[1][2])>>
         \o (IF Len(d) > 1 THEN <<Tok(",")>> \o DumpItems(Tail(d)) ELSE <<>>)

\* json.dumps of a dict, given as the sequence of its <<key, value>> items
JsonDumps(d) == <<Tok("{")>> \o DumpItems(d) \o <<Tok("}")>>

\* json.loads of a value and of the text of an object
LoadValue(tok) ==
    CASE tok.t = "string" -> PyStr(tok.s)
      [] tok.t = "number" -> PyInt(tok.n)
      [] tok.t = "true" -> PyBool(TRUE)
      [] tok.t = "false" -> PyBool(FALSE)
      [] OTHER -> PyNone

JsonLoads(text) ==
    [k \in 1..((Len(text) - 1) \div 4) |-> <<text[4 * k - 2].s, LoadValue(text[4 * k])>>]

\* lines 85-94: the parameters of the statement, one per column
BindParams(record) ==
    [task_id |-> record.task_id,
     created_at |-> BindText(record.created_at),
     status |-> BindText(record.status),
     progress |-> BindReal(record.progress),
     thumbnail_url |-> BindText(record.thumbnail_url),
     model_urls_json |-> JsonDumps(record.model_urls),
     options_json |-> JsonDumps(record.options),
     local_glb_path |-> BindText(record.local_glb_path)]

\* lines 65-84: INSERT, or on a conflict of task_id the update of the other
\* seven columns of the row found
UpsertRowMut(rows, row) ==
    IF \E i \in 1..Len(rows) : rows[i].task_id = row.task_id
    THEN [i \in 1..Len(rows) |->
             IF rows[i].task_id = row.task_id
             THEN [rows[i] EXCEPT !.created_at = row.created_at,
                                  !.status = row.status,
                                  !.progress = row.progress,
                                  !.thumbnail_url = row.thumbnail_url,
                                  !.model_urls_json = row.model_urls_json,
                                  !.options_json = row.options_json]
             ELSE rows[i]]
    ELSE Append(rows, row)

UpsertRow(rows, row) ==
    IF \E i \in 1..Len(rows) : rows[i].task_id = row.task_id
    THEN [i \in 1..Len(rows) |->
             IF rows[i].task_id = row.task_id
             THEN [rows[i] EXCEPT !.created_at = row.created_at,
                                  !.status = row.status,
                                  !.progress = row.progress,
                                  !.thumbnail_url = row.thumbnail_url,
                                  !.model_urls_json = row.model_urls_json,
                                  !.options_json = row.options_json,
                                  !.local_glb_path = row.local_glb_path]
             ELSE rows[i]]
    ELSE Append(rows, row)

\* _row_to_record, lines 126-136; an empty JSON column reads as {}
RowToRecord(row) ==
    Rec(row.task_id,
        ReadText(row.created_at),
        ReadText(row.status),
        ReadReal(row.progress),
        ReadText(row.thumbnail_url),
        IF row.model_urls_json = <<>> THEN <<>> ELSE JsonLoads(row.model_urls_json),
        IF row.options_json = <<>> THEN <<>> ELSE JsonLoads(row.options_json),
        ReadText(row.local_glb_path))

\* the dicts of the records written: model_urls of a finished job, and the
\* options _collect_options returns (lines 270-286)
StoredUrls == <<<<"glb", PyStr(GlbUrl)>>, <<"obj", PyStr("null")>>, <<"usdz", PyNone>>>>
StoredOptions == <<<<"ai_model", PyStr("latest")>>, <<"should_remesh", PyBool(TRUE)>>,
                   <<"enable_pbr", PyBool(FALSE)>>, <<"target_polycount", PyInt(30000)>>>>

\* the ids of the rows, and the records upserted for each: a fresh job, a
\* finished one, and two in between
StoreIds == {JobId, JobId2}

StoreRecords ==
    UNION {
    {Rec(id, SubmitTime, "PENDING", PNone, NoneVal, <<>>, <<>>, NoneVal),
     Rec(id, RemoteTime, "succeeded", PNum(100000), ThumbUrl, StoredUrls,
         StoredOptions, GlbPath),
     Rec(id, SubmitTime, "failed", PInf, ThumbUrl, <<>>, StoredOptions, NoneVal),
     Rec(id, LaterTime, "", PNum(420), NoneVal, StoredUrls, <<>>, GlbPath)}
    : id \in StoreIds}

\* TaskStorage after initialize() on a new database: the table is empty
StoreInit ==
    /\ running = TRUE
    /\ pc = "absent"
    /\ loop = "stream"
    /\ stream = "new"
    /\ payload = NoPayload
    /\ exc = NoExc
    /\ pollExc = NoExc
    /\ emitted = <<>>
    /\ calls = <<>>
    /\ handled = <<>>
    /\ curTaskId = NoneVal
    /\ curCreated = NoneVal
    /\ lastProgress = PNone
    /\ lastDownload = NoneVal
    /\ lastOptions = NoneVal
    /\ vpc = "idle"
    /\ dlUrls = NoUrls
    /\ delivered = 0
    /\ store = <<>>
    /\ listed = <<>>
    /\ nRefresh = 0
    /\ lastRefresh = <<>>
    /\ sse = SseIdle
    /\ upserts = <<>>
    /\ client = FALSE
    /\ refreshOutcome = "none"
    /\ taskId = NoneVal
    /\ sigBase = 0
    /\ downloaded = {}
    /\ OpenIdle

\* upsert(record), lines 60-95
StoreUpsert ==
    /\ Len(upserts) < MaxUpserts
    /\ \E r \in StoreRecords :
          /\ store' = UpsertRow(store, BindParams(r))
          /\ upserts' = Append(upserts, r)
    /\ UNCHANGED monVars
    /\ UNCHANGED <<curTaskId, curCreated, lastProgress, lastDownload, lastOptions,
                   vpc, dlUrls, delivered, listed, nRefresh>>
    /\ UNCHANGED <<sse, lastRefresh, client, refreshOutcome, taskId, sigBase, downloaded>>
    /\ UNCHANGED openVars

StoreNext == StoreUpsert

\* the Record Store alone: a sequence of upserts
StoreSpec == StoreInit /\ [][StoreNext]_vars

(***************************************************************************)
(* The update stream (app/core/meshy_client.py lines 95-131): the          *)
(* generator stream_image_to_3d_task reading the lines of the response     *)
(***************************************************************************)
\* number of events the server sends on one stream
MaxEvents == 2

\* the texts of the data lines: two snapshots, the second one sent on two
\* lines, an error object with and without a message field, a word that is
\* no JSON token and a number
PendingText == JsonDumps(<<<<"status", PyStr("pending")>>>>)
DoneText == JsonDumps(<<<<"status", PyStr("succeeded")>>>>)
BoomText == JsonDumps(<<<<"message", PyStr("boom")>>>>)
DetailText == JsonDumps(<<<<"detail", PyStr("busy")>>>>)
PlainText == <<[t |-> "word", s |-> "overloaded", n |-> 0]>>
NumberText == <<NumTok(503)>>

\* "\n".join(data_lines): a line break between tokens
RECURSIVE Join(_)
Join(texts) == IF texts = <<>> THEN <<>> ELSE texts[1] \o Join(Tail(texts))

\* whether json.loads accepts a text, as an object or as a single value
IsScalarTok(tok) == tok.t \in {"string", "number", "true", "false", "null"}

IsObjectText(text) ==
    /\ Len(text) >= 2
    /\ text[1] = Tok("{")
    /\ text[Len(text)] = Tok("}")
    /\ \/ Len(text) = 2
       \/ /\ (Len(text) - 1) % 4 = 0
          /\ \A k \in 1..((Len(text) - 1) \div 4) :
                /\ text[4 * k - 2].t = "string"
                /\ text[4 * k - 1] = Tok(":")
                /\ IsScalarTok(text[4 * k])
                /\ (4 * k + 1 < Len(text)) => text[4 * k + 1] = Tok(",")

IsJson(text) == IsObjectText(text) \/ (Len(text) = 1 /\ IsScalarTok(text[1]))

\* the value json.loads returns for a text it accepts
Parsed(text) ==
    IF IsObjectText(text)
    THEN [obj |-> TRUE, items |-> JsonLoads(text), val |-> PyNone]
    ELSE [obj |-> FALSE, items |-> <<>>, val |-> LoadValue(text[1])]

\* error_payload.get("message", payload) for a dict (line 118)
GetMessage(items, text) ==
    IF \E i \in 1..Len(items) : items[i][1] = "message"
    THEN [given |-> TRUE,
          val |-> items[CHOOSE i \in 1..Len(items) : items[i][1] = "message"][2],
          raw |-> <<>>]
    ELSE [given |-> FALSE, val |-> PyNone, raw |-> text]

\* the lines of the response
BlankLine == [kind |-> "blank", name |-> "", text |-> <<>>]
EventLine(n) == [kind |-> "event", name |-> n, text |-> <<>>]
DataLine(t) == [kind |-> "data", name |-> "", text |-> t]
CommentLine == [kind |-> "comment", name |-> "", text |-> <<>>]

\* the events the server sends: the type of each (None when it has no event
\* field) and the texts of its data lines
SseEvents ==
    {[type |-> "message", data |-> d] : d \in {<<PendingText>>,
                                     <<SubSeq(DoneText, 1, 3), SubSeq(DoneText, 4, 5)>>,
                                     <<PlainText>>, <<NumberText>>, <<>>}}
    \cup {[type |-> "error", data |-> d] : d \in {<<BoomText>>, <<DetailText>>, <<PlainText>>,
                                        <<NumberText>>, <<>>}}
    \cup {[type |-> "ping", data |-> <<PendingText>>],
          [type |-> NoneVal, data |-> <<>>], [type |-> NoneVal, data |-> <<PendingText>>]}

\* the lines of an event, a comment line standing where it has no event
\* field, and the blank line that ends it
LinesOf(e) ==
    <<IF e.type = NoneVal THEN CommentLine ELSE EventLine(e.type)>>
    \o [i \in 1..Len(e.data) |-> DataLine(e.data[i])]
    \o <<BlankLine>>

RECURSIVE AllLines(_)
AllLines(evs) == IF evs = <<>> THEN <<>> ELSE LinesOf(evs[1]) \o AllLines(Tail(evs))

EventSeqs == UNION {[1..n -> SseEvents] : n \in 0..MaxEvents}

\* the generator created and not yet started.  text tells whether the
\* response is one of httpx, whose iter_lines() hands out str objects, or
\* one that hands out the bytes objects line 126 decodes; status is the
\* status code of the response
SseInit ==
    /\ running = TRUE
    /\ pc = "absent"
    /\ loop = "stream"
    /\ stream = "new"
    /\ payload = NoPayload
    /\ exc = NoExc
    /\ pollExc = NoExc
    /\ emitted = <<>>
    /\ calls = <<>>
    /\ handled = <<>>
    /\ curTaskId = NoneVal
    /\ curCreated = NoneVal
    /\ lastProgress = PNone
    /\ lastDownload = NoneVal
    /\ lastOptions = NoneVal
    /\ vpc = "idle"
    /\ dlUrls = NoUrls
    /\ delivered = 0
    /\ store = <<>>
    /\ listed = <<>>
    /\ nRefresh = 0
    /\ lastRefresh = <<>>
    /\ \E evs \in EventSeqs, text \in BOOLEAN, status \in {200, 503} :
          sse = [events |-> evs, lines |-> AllLines(evs), text |-> text,
                 status |-> status, pc |-> "open", event_type |-> NoneVal,
                 data_lines |-> <<>>, yielded |-> <<>>, raised |-> NoRaise]
    /\ upserts = <<>>
    /\ client = TRUE
    /\ refreshOutcome = "none"
    /\ taskId = NoneVal
    /\ sigBase = 0
    /\ downloaded = {}
    /\ OpenIdle

\* everything but the generator
SseRest ==
    /\ UNCHANGED monVars
    /\ UNCHANGED <<curTaskId, curCreated, lastProgress, lastDownload, lastOptions,
                   vpc, dlUrls, delivered, store, listed, nRefresh>>
    /\ UNCHANGED <<upserts, lastRefresh, client, refreshOutcome, taskId, sigBase,
                   downloaded>>
    /\ UNCHANGED openVars

\* lines 101-105: the request is sent, _raise_for_status (lines 50-56)
\* raises for a status of 400 and above; it reads response.text, which a
\* streamed httpx response that was not read refuses with ResponseNotRead
SseOpen ==
    /\ sse.pc = "open"
    /\ sse' = IF sse.status >= 400
              THEN [sse EXCEPT !.pc = "done",
                               !.raised = Raised(IF sse.text THEN "ResponseNotRead"
                                                 ELSE "MeshyApiError", "status", NoMsg)]
              ELSE [sse EXCEPT !.pc = "read"]
    /\ SseRest

\* line 106: the response has no more lines, the generator returns
SseEnd ==
    /\ sse.pc = "read"
    /\ sse.lines = <<>>
    /\ sse' = [sse EXCEPT !.pc = "done"]
    /\ SseRest

\* lines 107-125: a blank line ends the event read so far
SseBlankLine ==
    /\ sse.pc = "read"
    /\ sse.lines # <<>>
    /\ Head(sse.lines).kind = "blank"
    /\ LET text == Join(sse.data_lines)
           next == [sse EXCEPT !.lines = Tail(sse.lines),
                               !.event_type = NoneVal,
                               !.data_lines = <<>>]
       IN sse' =
            IF sse.event_type = "message" /\ sse.data_lines # <<>>
            THEN IF IsJson(text)
                 THEN [next EXCEPT !.yielded = Append(sse.yielded, Parsed(text))]
                 ELSE [sse EXCEPT !.pc = "done",
                                  !.raised = Raised("MeshyApiError", "invalid JSON", NoMsg)]
            ELSE IF sse.event_type = "error" /\ sse.data_lines # <<>>
            THEN IF ~IsJson(text)
                 THEN [sse EXCEPT !.pc = "done",
                                  !.raised = Raised("MeshyApiError", "SSE error",
                                                    [given |-> FALSE, val |-> PyNone,
                                                     raw |-> text])]
                 ELSE IF Parsed(text).obj
                 THEN [sse EXCEPT !.pc = "done",
                                  !.raised = Raised("MeshyApiError", "SSE error",
                                                    GetMessage(Parsed(text).items, text))]
                 ELSE [sse EXCEPT !.pc = "done",
                                  !.raised = Raised("AttributeError", "get", NoMsg)]
            ELSE next
    /\ SseRest

\* line 126 where the line is a str: it has no decode method
SseDecodeFails ==
    /\ sse.pc = "read"
    /\ sse.lines # <<>>
    /\ Head(sse.lines).kind # "blank"
    /\ sse.text
    /\ sse' = [sse EXCEPT !.pc = "done",
                          !.raised = Raised("AttributeError", "decode", NoMsg)]
    /\ SseRest

\* lines 126-128: an event field
SseEventLine ==
    /\ sse.pc = "read"
    /\ sse.lines # <<>>
    /\ Head(sse.lines).kind = "event"
    /\ ~sse.text
    /\ sse' = [sse EXCEPT !.lines = Tail(sse.lines),
                          !.event_type = Head(sse.lines).name]
    /\ SseRest

\* lines 126-130: a data field
SseDataLine ==
    /\ sse.pc = "read"
    /\ sse.lines # <<>>
    /\ Head(sse.lines).kind = "data"
    /\ ~sse.text
    /\ sse' = [sse EXCEPT !.lines = Tail(sse.lines),
                          !.data_lines = Append(sse.data_lines, Head(sse.lines).text)]
    /\ SseRest

\* lines 126-130: a line that is neither, read and dropped
SseOtherLine ==
    /\ sse.pc = "read"
    /\ sse.lines # <<>>
    /\ Head(sse.lines).kind = "comment"
    /\ ~sse.text
    /\ sse' = [sse EXCEPT !.lines = Tail(sse.lines)]
    /\ SseRest

SseNext ==
    \/ SseOpen
    \/ SseEnd
    \/ SseBlankLine
    \/ SseDecodeFails
    \/ SseEventLine
    \/ SseDataLine
    \/ SseOtherLine

\* the generator consumed to its end by a caller that asks for every element
SseSpec == SseInit /\ [][SseNext]_vars

(***************************************************************************)
(* Properties                                                              *)
(***************************************************************************)

\* C1: within one run(), once taskCompleted or taskFailed has been emitted,
\* no statusChanged is emitted afterwards.
C1_NoStatusAfterTerminal ==
    \A i, j \in 1..Len(emitted) :
        (i < j /\ IsTerminalSig(emitted[i])) => emitted[j].sig # "statusChanged"

\* a session that emitted status updates for two snapshots, then a terminal
\* notification, and ended
C1_Witness ==
    /\ pc = "done"
    /\ Len(handled) = 2
    /\ CountSig(emitted, "statusChanged") = 2
    /\ IsTerminalSig(Last(emitted))

\* C2: when the streaming attempt raised and stop is not requested, the
\* polling loop is entered exactly once, the stream is opened only once, and
\* a finished session ended inside polling: its last notification is the
\* terminal one of a polled snapshot or of a polling fault.
C2_SingleFallback ==
    /\ Count(calls, "open") <= 1
    /\ Count(calls, "poll") <= 1
    /\ (exc # NoExc /\ running /\ pc # "except") =>
          /\ Count(calls, "poll") = 1
          /\ loop = "poll"
    /\ (exc # NoExc /\ running /\ pc = "done") =>
          /\ Count(calls, "fetch") >= 1
          /\ emitted # <<>>
          /\ IsTerminalSig(Last(emitted))

\* the stream raised before any snapshot, polling took over, fetched twice
\* and ended the session on a terminal snapshot
C2_Witness ==
    /\ pc = "done"
    /\ running
    /\ exc \in StreamMsgs
    /\ pollExc = NoExc
    /\ Count(calls, "poll") = 1
    /\ Count(calls, "fetch") = 2
    /\ Last(emitted).sig = "taskCompleted"

\* C3: if the stream is exhausted without a terminal snapshot and stop is not
\* requested, the monitor goes on to polling and issues at least one fetch.
C3_ExhaustedStreamFallsBack ==
    (pc = "done" /\ stream = "closed" /\ running) => Count(calls, "fetch") >= 1

\* C4: without stop and without a polling fault, a session that has ended has
\* emitted a terminal notification, whatever the stream did.
C4_EndsWithTerminal ==
    (pc = "done" /\ running /\ pollExc \notin PollMsgs) =>
        \E i \in 1..Len(emitted) : IsTerminalSig(emitted[i])

\* C5: after stop() no signal is emitted.
C5_NoEmitAfterStop == [][~running => emitted' = emitted]_vars

\* C6: after stop() no client operation is started: no open of the stream,
\* no read of the next event, no fetch.
C6_NoNetOpAfterStop == [][~running => NetOps(calls') = NetOps(calls)]_vars

\* C7: if the streaming attempt raised and stop is requested when the handler
\* looks at the flag, run() ends there: no polling, no fetch, no signal.
C7_StoppedRaiseEndsSilently ==
    [][(~running /\ exc # NoExc /\ Count(calls, "poll") = 0) =>
          /\ emitted' = emitted
          /\ calls' = calls
          /\ pc' \in {"except", "done"}]_vars

\* the stream raised, stop was requested, and run() ended without polling
C7_Witness ==
    /\ pc = "done"
    /\ ~running
    /\ exc \in StreamMsgs
    /\ Count(calls, "poll") = 0
    /\ Count(calls, "fetch") = 0

\* C8: if polling raised and stop is not requested, the session has ended
\* with exactly one taskFailed, emitted last, and nothing was started after
\* the fetch that failed.
C8_PollFaultIsTerminal ==
    (pc = "done" /\ pollExc # NoExc /\ running) =>
        /\ CountSig(emitted, "taskFailed") = 1
        /\ Last(emitted).sig = "taskFailed"
        /\ Last(calls) = "fetch"

\* the second fetch of a polling loop raised a transport fault
C8_Witness ==
    /\ pc = "done"
    /\ running
    /\ pollExc \in PollMsgs
    /\ Count(calls, "fetch") = 2
    /\ CountSig(emitted, "taskFailed") = 1

\* C9: when both attempts raised, taskFailed carries the polling message if
\* it is non-empty and the stream message otherwise.
C9_FailureReason ==
    (pc = "done" /\ exc # NoExc /\ pollExc # NoExc) =>
        /\ Last(emitted).sig = "taskFailed"
        /\ (pollExc # "" => Last(emitted).reason = pollExc)
        /\ (pollExc = "" => Last(emitted).reason = exc)

\* both attempts raised, polling with an empty message: the stream's is used
C9_Witness ==
    /\ pc = "done"
    /\ exc = "Meshy SSE error: boom"
    /\ pollExc = ""
    /\ Last(emitted) = TaskFailed("Meshy SSE error: boom")

\* the signals a snapshot has to cause, in order (by signal name)
ExpectedSigs(p) ==
    (IF p.status # "" THEN <<"statusChanged">> ELSE <<>>)
    \o (IF p.progress.kind \in {"num", "inf"} THEN <<"progressChanged">> ELSE <<>>)
    \o (IF p.status = "succeeded" THEN <<"taskCompleted">>
        ELSE IF p.status \in {"failed", "canceled"} THEN <<"taskFailed">>
        ELSE <<>>)

RECURSIVE ExpectedAll(_)
ExpectedAll(ps) ==
    IF ps = <<>> THEN <<>>
    ELSE ExpectedAll(SubSeq(ps, 1, Len(ps) - 1)) \o ExpectedSigs(Last(ps))

SigsOf(es) == [i \in 1..Len(es) |-> es[i].sig]

\* C10: outside the handling of a snapshot, the signals emitted are those of
\* the snapshots handled so far, snapshot by snapshot, each as statusChanged,
\* progressChanged, terminal notification (the taskFailed of a polling fault
\* aside).
C10_SignalOrder ==
    (pc \in QuietPcs /\ ~(pc = "done" /\ pollExc # NoExc)) =>
        SigsOf(emitted) = ExpectedAll(handled)

\* the terminal notification a snapshot has to cause
TerminalNotifs(p) ==
    IF p.status = "succeeded" THEN <<TaskCompleted(p)>>
    ELSE IF p.status \in {"failed", "canceled"} THEN <<TaskFailed("Task " \o p.status)>>
    ELSE <<>>

RECURSIVE TerminalAll(_)
TerminalAll(ps) ==
    IF ps = <<>> THEN <<>>
    ELSE TerminalAll(SubSeq(ps, 1, Len(ps) - 1)) \o TerminalNotifs(Last(ps))

\* C11: the terminal notifications emitted are exactly those of the handled
\* snapshots: taskCompleted with the snapshot for succeeded, taskFailed
\* "Task <status>" for failed and canceled, nothing for another status (the
\* taskFailed of a transport fault of polling aside); and a session that
\* ended otherwise than by stop, stream end or a polling fault ended on a
\* snapshot with a terminal status.
C11_TerminalNotifications ==
    pc \in QuietPcs =>
        /\ SelectSeq(emitted, IsTerminalSig) =
              TerminalAll(handled) \o
                 (IF pc = "done" /\ pollExc \in PollMsgs
                  THEN <<TaskFailed(FailReason(pollExc, exc))>> ELSE <<>>)
        /\ (pc = "done" /\ running /\ stream # "closed" /\ pollExc \notin PollMsgs
               /\ handled # <<>>)
              => IsTerminal(Last(handled).status)

\* the progress the claim expects for n/1000
ClaimedProgress(n) ==
    IF 0 <= n /\ n <= 1000 THEN Trunc(n * 100, 1000) ELSE Trunc(n, 1000)

\* C12: a numeric progress p in [0, 1] is emitted as p x 100 truncated toward
\* zero, which lies in 0..100; a progress above 1 as its own truncation.
C12_ProgressScaling ==
    (pc \in {"h_terminal", "tail"} /\ payload.progress.kind = "num"
        /\ payload.progress.milli >= 0) =>
        /\ emitted # <<>>
        /\ Last(emitted) = ProgressChanged(ClaimedProgress(payload.progress.milli))
        /\ (payload.progress.milli <= 1000 =>
               Last(emitted).progress \in 0..100)

C14_ProgressRange ==
    \A i \in 1..Len(emitted) :
        emitted[i].sig = "progressChanged" => emitted[i].progress \in 0..100

\* the ids that have been upserted: the row of the earlier run, and the job
\* submitted in this run
UpsertedIds == {OldJobId} \cup ({curTaskId} \ {NoneVal})

\* C15: the table holds at most one row per job id, and exactly one for
\* every job id that was upserted.
C15_OneRowPerJob ==
    /\ \A i, j \in 1..Len(store) : store[i].task_id = store[j].task_id => i = j
    /\ \A id \in UpsertedIds : Cardinality(RowsOf(store, id)) = 1
    /\ \A i \in 1..Len(store) : store[i].task_id \in UpsertedIds

\* two jobs in the table after the submission, two delivered signals, a
\* download and a refresh have all written rows
C15_Witness ==
    /\ Len(store) = 2
    /\ delivered >= 3
    /\ lastDownload = GlbPath
    /\ nRefresh >= 1

\* the stored status is one of the terminal labels
HasTerminalRow(rows) ==
    /\ RowsOf(rows, JobId) # {}
    /\ FetchById(rows, JobId).status \in {"succeeded", "failed", "canceled"}

\* C16: in a session without on-demand refresh, once the stored status of
\* the job is terminal, no write caused by a notification of the session (a
\* delivered signal, or the download that follows taskCompleted) makes it
\* non-terminal.
C16_NoResurrection ==
    [][(nRefresh = 0 /\ HasTerminalRow(store)
           /\ (delivered' # delivered \/ vpc' # vpc))
          => HasTerminalRow(store')]_vars

\* the session is over and every signal has been handled, without refresh
SessionSettled ==
    /\ pc = "done"
    /\ delivered = Len(emitted)
    /\ vpc = "idle"
    /\ nRefresh = 0
    /\ handled # <<>>

\* C17: after a session that ended with a failed or canceled snapshot,
\* exactly one taskFailed "Task <status>" was emitted and the stored row has
\* that status.
C17_FailedSessionStored ==
    (SessionSettled /\ Last(handled).status \in {"failed", "canceled"}) =>
        /\ CountSig(emitted, "taskFailed") = 1
        /\ Last(emitted) = TaskFailed("Task " \o Last(handled).status)
        /\ Cardinality(RowsOf(store, JobId)) = 1
        /\ FetchById(store, JobId).status = Last(handled).status

\* the progress signals emitted in the session
ProgressSignals == SelectSeq(emitted, LAMBDA e : e.sig = "progressChanged")

\* C18: after a session whose snapshots end with a succeeded snapshot
\* carrying model_urls, the table has exactly one row for the job, with
\* status succeeded, the last progress emitted, and the snapshot's model_urls.
C18_SucceededSessionStored ==
    (SessionSettled /\ Last(handled).status = "succeeded"
        /\ Last(handled).model_urls # {}) =>
        /\ Cardinality(RowsOf(store, JobId)) = 1
        /\ FetchById(store, JobId).status = "succeeded"
        /\ FetchById(store, JobId).model_urls = Last(handled).model_urls
        /\ (ProgressSignals # <<>> =>
               FetchById(store, JobId).progress =
                  PNum(Last(ProgressSignals).progress * 1000))

\* C19: a stored non-empty model_urls or thumbnail_url of a job is never
\* replaced by an empty or absent one.
C19_UrlsNeverCleared ==
    [][\A id \in {JobId, OldJobId} :
          (RowsOf(store, id) # {} /\ RowsOf(store', id) # {}) =>
             /\ (FetchById(store, id).model_urls # {} =>
                    FetchById(store', id).model_urls # {})
             /\ (FetchById(store, id).thumbnail_url # NoneVal =>
                    FetchById(store', id).thumbnail_url # NoneVal)]_vars

\* C20: a refresh leaves a stored local artifact path as it is.
C20_RefreshKeepsLocalPath ==
    [][(nRefresh' # nRefresh /\ RowsOf(store, JobId) # {}
           /\ FetchById(store, JobId).local_glb_path # NoneVal)
          => FetchById(store', JobId).local_glb_path =
                FetchById(store, JobId).local_glb_path]_vars

\* C29: in the polling loop, a handled non-terminal snapshot is followed by
\* one wait, a fetch is issued only on entering the loop or after exactly one
\* wait that followed a fetch, and a handled terminal snapshot is followed by
\* the return of run() without a further fetch or wait.
C29_PollPacing ==
    [][/\ (pc = "tail" /\ loop = "poll" /\ pc' # pc) =>
             IF IsTerminal(payload.status)
             THEN pc' = "done" /\ calls' = calls
             ELSE pc' = "sleeping" /\ calls' = Append(calls, "sleep")
       /\ (calls' = Append(calls, "fetch")) =>
             \/ Last(calls) = "poll"
             \/ /\ Last(calls) = "sleep"
                /\ calls[Len(calls) - 1] = "fetch"
                /\ ~IsTerminal(payload.status)
       /\ (calls' = Append(calls, "sleep")) =>
             Last(calls) = "fetch" /\ ~IsTerminal(payload.status)
       /\ (pc = "done") => calls' = calls]_vars

\* a polling session that fetched a non-terminal snapshot, waited once,
\* fetched a terminal snapshot and returned
C29_Witness ==
    /\ pc = "done"
    /\ loop = "poll"
    /\ Len(calls) >= 3
    /\ SubSeq(calls, Len(calls) - 2, Len(calls)) = <<"fetch", "sleep", "fetch">>
    /\ IsTerminal(Last(handled).status)
    /\ IsTerminalSig(Last(emitted))

\* C30: once stop() has been called, run() eventually returns.
C30_StopLeadsToReturn == (~running) ~> (pc = "done")

\* stop() was called while the monitor was polling, and run() has returned
\* from the loop condition after the wait
C30_Witness ==
    /\ ~running
    /\ pc = "done"
    /\ loop = "poll"
    /\ Last(calls) = "sleep"

\* the merge of a stored row with a snapshot, field by field: the snapshot's
\* value when it is present and non-empty, else the stored one
KeepOrTake(snapValue, storedValue, empty) ==
    IF snapValue \in empty THEN storedValue ELSE snapValue

\* the absent or empty values of a text field and of model_urls
NoText == {NoneVal, ""}
NoDict == {NoUrls}

\* C22: the record written by an on-demand refresh holds, for created_at,
\* status, thumbnail_url, model_urls and options, the snapshot's value when
\* present and non-empty and the previously stored value otherwise; task_id
\* and local_glb_path are those of the stored row.
C22_RefreshMergesStored ==
    [][(nRefresh' # nRefresh /\ lastRefresh' # lastRefresh) =>
          LET snap == lastRefresh'[2]
              old == FetchById(store, lastRefresh'[1].task_id)
              new == FetchById(store', lastRefresh'[1].task_id)
          IN /\ new.task_id = old.task_id
             /\ new.local_glb_path = old.local_glb_path
             /\ new.created_at = KeepOrTake(snap.created_at, old.created_at, NoText)
             /\ new.status = KeepOrTake(snap.status, old.status, NoText)
             /\ new.thumbnail_url = KeepOrTake(snap.thumbnail_url, old.thumbnail_url, NoText)
             /\ new.model_urls = KeepOrTake(snap.model_urls, old.model_urls, NoDict)
             /\ new.options = KeepOrTake(snap.options, old.options, NoText)]_vars

\* C23: a refresh whose snapshot has no progress field writes the previously
\* stored progress.
C23_RefreshKeepsProgress ==
    [][(nRefresh' # nRefresh /\ lastRefresh' # lastRefresh
           /\ lastRefresh'[2].progress = PNone) =>
          FetchById(store', lastRefresh'[1].task_id).progress =
             FetchById(store, lastRefresh'[1].task_id).progress]_vars

\* C26: the stored created_at of a job changes only to the value a remote
\* snapshot supplies; in particular a stored remote value is not replaced by
\* a locally generated one.
C26_CreatedAtOnlyRemote ==
    [][\A id \in {JobId, OldJobId} :
          (RowsOf(store, id) # {} /\ RowsOf(store', id) # {}
              /\ FetchById(store', id).created_at # FetchById(store, id).created_at)
             => FetchById(store', id).created_at = RemoteTime]_vars

\* the signals the monitor of job id has emitted so far
OwnSignals(id) ==
    {i \in 1..Len(emitted) : SigJob(i) = id}

\* the step handles the next queued signal, which the monitor of job id
\* emitted, while the view tracks job cur
Handles(id, cur) ==
    /\ delivered' = delivered + 1
    /\ SigJob(delivered + 1) = id
    /\ curTaskId = cur

\* C21: a notification of a job's own monitor, handled before any download
\* of that job's result has completed, leaves the job's row without a
\* local artifact path, whatever jobs were submitted before.
C21_PathOnlyAfterOwnDownload ==
    [][\A id \in {JobId, JobId2} :
          (Handles(id, id) /\ id \notin downloaded) =>
             FetchById(store', id).local_glb_path = NoneVal]_vars

\* C27: while the first job's monitor is still running after the second
\* submission, handling a signal of the first monitor leaves the second
\* job's row as it is.
C27_FirstMonitorKeepsOff ==
    [][(Handles(JobId, JobId2) /\ taskId = JobId /\ pc \notin {"done", "aborted"}) =>
          FetchById(store', JobId2) = FetchById(store, JobId2)]_vars

\* C28: the stored progress of the second job is absent at its submission
\* and stays absent while its own monitor has emitted no progress update.
C28_ProgressAbsentUntilObserved ==
    /\ [][(curTaskId = JobId /\ curTaskId' = JobId2) =>
             FetchById(store', JobId2).progress = PNone]_vars
    /\ [][(Handles(JobId2, JobId2)
             /\ FetchById(store, JobId2).progress = PNone
             /\ \A i \in OwnSignals(JobId2) : emitted[i].sig # "progressChanged") =>
             FetchById(store', JobId2).progress = PNone]_vars

\* the values of a key in the query as written, blank ones included
RawValues(query, key) ==
    LET kept == SelectSeq(query, LAMBDA p : p[1] = key)
    IN [i \in 1..Len(kept) |-> kept[i][2]]

\* expired as the expiry rule states it: the Expires parameter, or expires
\* when the query has no Expires, has a first value that parses as an
\* integer strictly smaller than the current time
StatedExpired(url, t) ==
    LET chosen == IF RawValues(url.query, "Expires") # <<>>
                  THEN RawValues(url.query, "Expires")
                  ELSE RawValues(url.query, "expires")
    IN /\ chosen # <<>>
       /\ IsInteger(chosen[1])
       /\ 2 * IntOf(chosen[1]) < t

\* C24: URL resolution never returns a URL whose expiry timestamp is in the
\* past; the button is enabled, and a URL handed to the viewer, only for a
\* record with a local artifact path or with a resolved URL that is not
\* expired.
C24_NoExpiredUrl ==
    /\ [](ResolveModelUrl(selRecord, now) # NoUrl =>
             ~StatedExpired(ResolveModelUrl(selRecord, now), now))
    /\ [][(openEnabled' /\ ~openEnabled /\ selRecord.local_glb_path = NoneVal) =>
             /\ PickUrl(selRecord.model_urls).text \notin {NoneVal, ""}
             /\ ~StatedExpired(PickUrl(selRecord.model_urls), now)]_vars
    /\ [][(viewerUrl' # viewerUrl /\ selRecord.local_glb_path = NoneVal) =>
             /\ viewerUrl' = PickUrl(selRecord.model_urls)
             /\ ~StatedExpired(viewerUrl', now)]_vars
    /\ [][(viewerUrl' # viewerUrl /\ selRecord.local_glb_path # NoneVal) =>
             viewerUrl' = FileUri(selRecord.local_glb_path)]_vars

\* a URL was opened while it was valid; it has expired since, and the next
\* click found it unavailable and disabled the button
C24_Witness ==
    /\ selRecord.local_glb_path = NoneVal
    /\ viewerUrl = PickUrl(selRecord.model_urls)
    /\ viewerUrl # NoUrl
    /\ StatedExpired(viewerUrl, now)
    /\ ResolveModelUrl(selRecord, now) = NoUrl
    /\ ~openEnabled

\* C25: _is_url_expired returns expired exactly when the Expires parameter
\* (or expires, when Expires is missing) has a first value that parses as an
\* integer strictly smaller than the current time.
C25_ExpiryRule ==
    expiryCall.result = StatedExpired(expiryCall.url, expiryCall.at)


\* ---------------------------------------------------------------------
\* C34: in one run of the monitor at most one terminal notification is
\* emitted in total: never two taskFailed, never two taskCompleted and
\* never a taskCompleted together with a taskFailed, whatever the stream
\* and the polling deliver or raise.
C34_AtMostOneTerminal ==
    CountSig(emitted, "taskCompleted") + CountSig(emitted, "taskFailed") <= 1

\* a run that fell back to polling, handled two snapshots and ended with
\* its single terminal notification
C34_Witness ==
    /\ pc = "done"
    /\ loop = "poll"
    /\ Len(handled) = 2
    /\ ~IsTerminal(handled[1].status)
    /\ IsTerminal(handled[2].status)
    /\ CountSig(emitted, "taskCompleted") + CountSig(emitted, "taskFailed") = 1


\* ---------------------------------------------------------------------
\* the entry of a dict of URLs under a label, and whether it has one
HasEntry(urls, label) == \E i \in 1..Len(urls) : urls[i][1] = label

EntryOf(urls, label) == urls[CHOOSE i \in 1..Len(urls) : urls[i][1] = label][2]

\* C33: URL resolution selects the "glb" entry of model_urls whenever the
\* dict has one, selects another entry only when it has none, and reports
\* the model unavailable when the dict is empty: a remote URL that the
\* open button hands to the viewer is the "glb" entry of the selected
\* record if the record has such an entry, and comes from a dict that is
\* not empty.
C33_GlbWheneverPresent ==
    (selRecord.local_glb_path = NoneVal /\ viewerUrl # NoUrl) =>
        /\ selRecord.model_urls # <<>>
        /\ HasEntry(selRecord.model_urls, "glb") =>
               viewerUrl = EntryOf(selRecord.model_urls, "glb")


\* ---------------------------------------------------------------------
\* C35: an on-demand refresh whose fetch fails with MeshyApiError, or that
\* finds no client set, performs no upsert: every stored record is as it
\* was before the refresh.
C35_FailedRefreshWritesNothing ==
    [][(nRefresh' # nRefresh /\ refreshOutcome' \in {"fetch failed", "no client"})
          => store' = store]_vars

\* two refreshes that wrote nothing, the fetch of the second one failing
\* after the submitted job's row was written
C35_Witness ==
    /\ nRefresh = 2
    /\ refreshOutcome = "fetch failed"
    /\ Len(store) = 2
    /\ lastRefresh = <<>>


\* ---------------------------------------------------------------------
\* the calls of upsert for an id so far
UpsertsOf(id) == {i \in 1..Len(upserts) : upserts[i].task_id = id}

\* C32: after upsert(r), fetch_by_id(r.task_id) returns a record equal to r
\* in every field, nothing of an earlier row of that id surviving, and the
\* rows of the other ids are unchanged: at every moment each id has the
\* record of the last upsert made for it, and no row if there was none.
C32_StoreRoundTrip ==
    \A id \in StoreIds :
        IF UpsertsOf(id) = {}
        THEN RowsOf(store, id) = {}
        ELSE /\ Cardinality(RowsOf(store, id)) = 1
             /\ RowToRecord(FetchById(store, id)) =
                   upserts[CHOOSE i \in UpsertsOf(id) : \A j \in UpsertsOf(id) : j <= i]

\* the row of a finished job replaced by a record that differs from it in
\* every field but the id, after a row of another id was written
C32_Witness ==
    /\ Len(upserts) = 3
    /\ upserts[1] = Rec(JobId, RemoteTime, "succeeded", PNum(100000), ThumbUrl,
                        StoredUrls, StoredOptions, GlbPath)
    /\ upserts[2].task_id = JobId2
    /\ upserts[3] = Rec(JobId, SubmitTime, "PENDING", PNone, NoneVal, <<>>, <<>>, NoneVal)
    /\ Len(store) = 2


\* ---------------------------------------------------------------------
\* the message the server supplies with an error event: the message field
\* of a JSON object, else the text of the event
ServerMessage(text) ==
    IF IsObjectText(text) THEN GetMessage(JsonLoads(text), text)
    ELSE [given |-> FALSE, val |-> PyNone, raw |-> text]

\* what the stream is stated to do with the events sent: the elements it
\* yields and the failure it ends with
RECURSIVE Stated(_)
Stated(evs) ==
    IF evs = <<>> THEN [yielded |-> <<>>, raised |-> NoRaise]
    ELSE LET e == evs[1]
             text == Join(e.data)
             rest == Stated(Tail(evs))
         IN IF e.type = "message"
            THEN IF IsJson(text)
                 THEN [yielded |-> <<Parsed(text)>> \o rest.yielded, raised |-> rest.raised]
                 ELSE [yielded |-> <<>>,
                       raised |-> Raised("MeshyApiError", "invalid JSON", NoMsg)]
            ELSE IF e.type = "error"
            THEN [yielded |-> <<>>,
                  raised |-> Raised("MeshyApiError", "SSE error", ServerMessage(text))]
            ELSE rest

\* the events the statement is about: typed "message" or "error" with data,
\* or of another type
StatedEvent(e) == (e.type \in {"message", "error"} => e.data # <<>>) /\ e.type # NoneVal

\* C31: the update stream yields exactly the payloads of the "message"
\* events, in the order received and one per event; at the first "error"
\* event it fails with MeshyApiError carrying the server's message and
\* yields nothing more; a "message" event whose data is no JSON fails with
\* MeshyApiError too.  Stated of a stream that was opened with success and
\* read to its end.
C31_StreamContract ==
    (/\ sse.pc = "done"
     /\ sse.status < 400
     /\ \A i \in 1..Len(sse.events) : StatedEvent(sse.events[i]))
    => /\ sse.yielded = Stated(sse.events).yielded
       /\ sse.raised = Stated(sse.events).raised

====
